---------------------------- MODULE Spec2Model ----------------------------
(***************************************************************************)
(* Model of examples/tsp/construct_tsp.py: a straight-line script that     *)
(* seeds the random source, generates 20 points, builds the pairwise       *)
(* distance matrix, writes it to the file "dist_mat", parses a literal     *)
(* edge list and plots the points with one segment per edge.               *)
(*                                                                         *)
(* Numbers.  Python floats are modelled as decimal fixed-point numbers     *)
(* with FracDigits fractional digits: the integer v stands for v / One.    *)
(* Squares and sums are exact; the square root rounds (down) to the grid.  *)
(* Text is a sequence of one-character strings.  Python sequences are      *)
(* 0-based; At(s, k) reads element k of a Python list.                     *)
(*                                                                         *)
(* The random source is library code.  It is modelled as a deterministic   *)
(* generator (a linear congruential step on RngBits bits) whose            *)
(* parameters are fixed but unknown: Init picks them, random.seed sets     *)
(* the state from the seed, random.random advances it and returns a value  *)
(* in [0, 1).  A fresh process starts with an arbitrary generator state.   *)
(***************************************************************************)
EXTENDS Integers, Sequences, FiniteSets, TLC

\* ------------------------------------------------------------ constants
\* range(20) of lines 8, 12 and 15
N == 20
\* random.seed(1337)
SeedValue == 1337

\* ------------------------------------------------------------ bounds
\* fractional decimal digits of the fixed-point numbers
FracDigits == 2
\* the generator's state has RngBits bits
RngBits == 4
\* the generator's multiplier is 4k + 1 for some k in 0..MaxMultiplier,
\* its increment 2k + 1 for some k in 0..MaxIncrement
MaxMultiplier == 1
MaxIncrement == 0
\* the script is run up to MaxRuns times in a row
MaxRuns == 2

RECURSIVE Pow10(_)
Pow10(n) == IF n = 0 THEN 1 ELSE 10 * Pow10(n - 1)

RECURSIVE Pow2(_)
Pow2(n) == IF n = 0 THEN 1 ELSE 2 * Pow2(n - 1)

\* the number of generator states
RngModulus == Pow2(RngBits)

\* the fixed-point representation of 1.0
One == Pow10(FracDigits)

\* ------------------------------------------------------------ sequences
\* Python list indexing s[k]: 0-based, a negative k counts from the end
InRange(s, k) == k >= -Len(s) /\ k < Len(s)
At(s, k) == IF k >= 0 THEN s[k + 1] ELSE s[Len(s) + k + 1]

\* s[a:] and s[:-1] and s[1:-1]
DropFirst(s) == SubSeq(s, 2, Len(s))
DropLast(s) == SubSeq(s, 1, Len(s) - 1)

\* the positions where sep occurs in s
Occurrences(s, sep) ==
    {p \in 1..(Len(s) - Len(sep) + 1) : \A k \in 1..Len(sep) : s[p + k - 1] = sep[k]}

\* the pieces of s from position start on, occ being the occurrences of sep
RECURSIVE SplitFrom(_, _, _, _)
SplitFrom(s, sep, occ, start) ==
    LET rest == {q \in occ : q >= start}
    IN  IF rest = {} THEN <<SubSeq(s, start, Len(s))>>
        ELSE LET p == CHOOSE q \in rest : \A r \in rest : q <= r
             IN  <<SubSeq(s, start, p - 1)>> \o SplitFrom(s, sep, occ, p + Len(sep))

\* str.split(sep): the pieces of s between the occurrences of sep, left to
\* right, an occurrence never overlapping the one before
Split(s, sep) == SplitFrom(s, sep, Occurrences(s, sep), 1)

\* ------------------------------------------------------------ numbers and text
DigitChars == <<"0", "1", "2", "3", "4", "5", "6", "7", "8", "9">>
DigitVal(c) == (CHOOSE d \in 1..10 : DigitChars[d] = c) - 1

\* int(text) of a string of decimal digits
RECURSIVE IntOf(_)
IntOf(t) ==
    IF Len(t) = 0 THEN 0
    ELSE 10 * IntOf(DropLast(t)) + DigitVal(t[Len(t)])

\* str(n) of a non-negative integer
RECURSIVE IntStr(_)
IntStr(n) ==
    IF n < 10 THEN <<DigitChars[n + 1]>>
    ELSE IntStr(n \div 10) \o <<DigitChars[(n % 10) + 1]>>

\* the k decimal digits of n, zero-padded on the left
RECURSIVE Padded(_, _)
Padded(n, k) ==
    IF k = 0 THEN <<>>
    ELSE Padded(n \div 10, k - 1) \o <<DigitChars[(n % 10) + 1]>>

\* trailing zeros removed, one digit always kept
RECURSIVE StripZeros(_)
StripZeros(t) ==
    IF Len(t) > 1 /\ t[Len(t)] = "0" THEN StripZeros(DropLast(t)) ELSE t

\* f"{dist:.1f}": one fractional digit, the rest cut off
FormatOneDigit(d) ==
    IntStr(d \div One) \o <<".">> \o SubSeq(Padded(d % One, FracDigits), 1, 1)

\* f"{dist}": the shortest decimal text that reads back as dist, always
\* with a decimal point and at least one fractional digit ("0.0", "1.41")
FormatFloat(d) ==
    IntStr(d \div One) \o <<".">> \o StripZeros(Padded(d % One, FracDigits))

\* ------------------------------------------------------------ numpy
\* Sub with the second coordinate taken against q's first coordinate
SubIndexSlip(p, q) == <<p[1] - q[1], p[2] - q[1]>>

\* np.array(p) - np.array(q): the coordinate-wise difference
Sub(p, q) == <<p[1] - q[1], p[2] - q[2]>>

\* the largest r in lo..hi with r * r <= v (v >= lo * lo)
RECURSIVE SqrtBetween(_, _, _)
SqrtBetween(v, lo, hi) ==
    IF lo = hi THEN lo
    ELSE LET mid == (lo + hi + 1) \div 2
         IN  IF mid * mid <= v THEN SqrtBetween(v, mid, hi)
             ELSE SqrtBetween(v, lo, mid - 1)

\* a power of two whose square exceeds v, found by doubling from h
RECURSIVE SqrtCeiling(_, _)
SqrtCeiling(v, h) == IF h * h > v THEN h ELSE SqrtCeiling(v, 2 * h)

\* the square root of a sum of squares of fixed-point numbers, on the grid
Sqrt(v) == SqrtBetween(v, 0, SqrtCeiling(v, 1))

Abs(n) == IF n < 0 THEN -n ELSE n

\* the 1-norm, np.linalg.norm(v, 1), in place of the Euclidean norm
NormOrd1(v) == Abs(v[1]) + Abs(v[2])

\* np.linalg.norm(v): the Euclidean norm sqrt(v . v)
Norm(v) == Sqrt(v[1] * v[1] + v[2] * v[2])

\* ------------------------------------------------------------ random
RngStates == 0..(RngModulus - 1)

\* the generator state random.seed(a) installs
SeedState(a) == a % RngModulus

\* the value in [0, 1) the generator returns in state s
Output(s) == (s * One) \div RngModulus

\* ------------------------------------------------------------ the literal
\* the text between the triple quotes of lines 28..49
EdgesLiteral ==
   <<"\n",
     "(", "1", "1", ",", " ", "3", ")", "\n",
     "(", "3", ",", " ", "1", "0", ")", "\n",
     "(", "1", "0", ",", " ", "1", "3", ")", "\n",
     "(", "1", "3", ",", " ", "6", ")", "\n",
     "(", "6", ",", " ", "1", "5", ")", "\n",
     "(", "1", "5", ",", " ", "1", "2", ")", "\n",
     "(", "1", "2", ",", " ", "0", ")", "\n",
     "(", "0", ",", " ", "1", "8", ")", "\n",
     "(", "1", "8", ",", " ", "1", ")", "\n",
     "(", "1", ",", " ", "1", "9", ")", "\n",
     "(", "1", "9", ",", " ", "8", ")", "\n",
     "(", "8", ",", " ", "1", "6", ")", "\n",
     "(", "1", "6", ",", " ", "1", "4", ")", "\n",
     "(", "1", "4", ",", " ", "9", ")", "\n",
     "(", "9", ",", " ", "4", ")", "\n",
     "(", "4", ",", " ", "5", ")", "\n",
     "(", "5", ",", " ", "1", "7", ")", "\n",
     "(", "1", "7", ",", " ", "7", ")", "\n",
     "(", "7", ",", " ", "2", ")", "\n",
     "(", "2", ",", " ", "1", "1", ")", "\n">>


\* ------------------------------------------------------------ state
VARIABLES
    pc,         \* the statement the script is at
    mult, inc,  \* the generator's parameters (fixed for the library)
    rng,        \* the generator's state
    points,     \* line 8
    dist_mat,   \* line 10
    dists,      \* line 13
    disk,       \* the file "dist_mat": whether it exists, and its content
    f,          \* the handle of line 20: "none", "open" or "closed"
    opens,      \* how many times this run opened the file
    wr, wc,     \* the writer's position: row and column of the next value
    edges,      \* lines 28..50
    x, y,       \* lines 52, 53
    scattered,  \* the points handed to plt.scatter
    segments,   \* the plt.plot calls so far, in order
    e,          \* the position of the loop of line 57 in edges
    labelled,   \* lines 60..62 ran
    shown,      \* plt.show returned
    fault,      \* the exception that ended the script, or "none"
    run,        \* which run of the script this is
    before,     \* the file as it was when this run started
    prev        \* what the previous run produced

prog == <<points, dist_mat, dists, f, opens, wr, wc, edges, x, y, scattered,
          segments, e, labelled, shown>>
lib == <<mult, inc>>
hist == <<run, before, prev>>
vars == <<pc, fault, lib, rng, disk, hist, prog>>

Absent == [exists |-> FALSE, data |-> <<>>]
File(t) == [exists |-> TRUE, data |-> t]

\* text longer than any serialization of an N x N matrix
LongText == [k \in 1..(N * N * (FracDigits + 4)) |-> "x"]

\* what the file may hold before the first run
OldFiles == {Absent, File(<<>>), File(LongText)}

NoPrev == [points |-> <<>>, dist_mat |-> <<>>, data |-> <<>>]

\* the state of a freshly started interpreter
Fresh ==
    /\ pc = "import"
    /\ fault = "none"
    /\ points = <<>>
    /\ dist_mat = <<>>
    /\ dists = <<>>
    /\ f = "none"
    /\ opens = 0
    /\ wr = 0
    /\ wc = 0
    /\ edges = <<>>
    /\ x = <<>>
    /\ y = <<>>
    /\ scattered = <<>>
    /\ segments = <<>>
    /\ e = 0
    /\ labelled = FALSE
    /\ shown = FALSE

Init ==
    /\ Fresh
    /\ mult \in {4 * k + 1 : k \in 0..MaxMultiplier}
    /\ inc \in {2 * k + 1 : k \in 0..MaxIncrement}
    /\ rng \in RngStates
    /\ disk \in OldFiles
    /\ run = 1
    /\ before = disk
    /\ prev = NoPrev

\* ------------------------------------------------------------ lines 1..3
\* the imports
Import ==
    /\ pc = "import"
    /\ pc' = "seed"
    /\ UNCHANGED <<fault, lib, rng, disk, hist, prog>>

\* ------------------------------------------------------------ lines 5..8
\* the seeding left out: the generator keeps the state the process began with
SeedForgotten ==
    /\ pc = "seed"
    /\ pc' = "points"
    /\ UNCHANGED <<fault, lib, rng, disk, hist, prog>>

\* random.seed(1337)
Seed ==
    /\ pc = "seed"
    /\ rng' = SeedState(SeedValue)
    /\ pc' = "points"
    /\ UNCHANGED <<fault, lib, disk, hist, prog>>

\* the generator's step
Advance(s) == (mult * s + inc) % RngModulus

\* [random.random(), random.random()]: two draws, left to right
TwoDraws(s) ==
    LET s1 == Advance(s)
        s2 == Advance(s1)
    IN  [point |-> <<Output(s1), Output(s2)>>, state |-> s2]

\* one iteration of the comprehension of line 8; line 10 follows the last
GenPoint ==
    /\ pc = "points"
    /\ Len(points) < N
    /\ LET d == TwoDraws(rng)
       IN  /\ points' = Append(points, d.point)
           /\ rng' = d.state
    /\ pc' = IF Len(points) + 1 = N THEN "row" ELSE "points"
    /\ UNCHANGED <<fault, lib, disk, hist, dist_mat, dists, f, opens, wr, wc,
                   edges, x, y, scattered, segments, e, labelled, shown>>

\* ------------------------------------------------------------ lines 12..18
\* line 13: dists = [] at the head of iteration i = Len(dist_mat)
RowStart ==
    /\ pc = "row"
    /\ dists' = <<>>
    /\ pc' = "col"
    /\ UNCHANGED <<fault, lib, rng, disk, hist, points, dist_mat, f, opens,
                   wr, wc, edges, x, y, scattered, segments, e, labelled, shown>>

\* only the upper triangle computed, the lower left at zero
EntryUpperOnly(i, j) ==
    IF j >= i THEN Norm(Sub(At(points, i), At(points, j))) ELSE 0

\* the value line 16 appends for row i, column j
Entry(i, j) == Norm(Sub(At(points, i), At(points, j)))

\* line 16, iteration j = Len(dists) of the inner loop
AppendDist ==
    /\ pc = "col"
    /\ Len(dists) < N
    /\ dists' = Append(dists, Entry(Len(dist_mat), Len(dists)))
    /\ UNCHANGED <<fault, pc, lib, rng, disk, hist, points, dist_mat, f,
                   opens, wr, wc, edges, x, y, scattered, segments, e, labelled,
                   shown>>

\* line 18, after the inner loop
AppendRow ==
    /\ pc = "col"
    /\ Len(dists) = N
    /\ dist_mat' = Append(dist_mat, dists)
    /\ pc' = IF Len(dist_mat) + 1 = N THEN "open" ELSE "row"
    /\ UNCHANGED <<fault, lib, rng, disk, hist, points, dists, f, opens, wr,
                   wc, edges, x, y, scattered, segments, e, labelled, shown>>

\* ------------------------------------------------------------ lines 20..25
\* what open(name, "a") leaves on disk: the earlier content kept
OpenAppend(d) == File(d.data)

\* what open(name, "w") leaves on disk: the file created or truncated
OpenW(d) == File(<<>>)

\* line 20
OpenFile ==
    /\ pc = "open"
    /\ disk' = OpenW(disk)
    /\ f' = "open"
    /\ opens' = opens + 1
    /\ wr' = 0
    /\ wc' = 0
    /\ pc' = "write"
    /\ UNCHANGED <<fault, lib, rng, hist, points, dist_mat, dists, edges, x,
                   y, scattered, segments, e, labelled, shown>>

\* line 20 raising (an unwritable path): nothing is opened, the script dies
OpenFail ==
    /\ pc = "open"
    /\ pc' = "aborted"
    /\ fault' = "OSError"
    /\ UNCHANGED <<lib, rng, disk, hist, prog>>

\* the text line 23 writes for one value
Cell(d) == FormatFloat(d) \o <<" ">>

\* line 23: the next value of the current row
WriteDist ==
    /\ pc = "write"
    /\ wc < Len(At(dist_mat, wr))
    /\ disk' = File(disk.data \o Cell(At(At(dist_mat, wr), wc)))
    /\ wc' = wc + 1
    /\ UNCHANGED <<fault, pc, lib, rng, hist, points, dist_mat, dists, f,
                   opens, wr, edges, x, y, scattered, segments, e, labelled,
                   shown>>

\* line 25, after the row's values
WriteNewline ==
    /\ pc = "write"
    /\ wc = Len(At(dist_mat, wr))
    /\ disk' = File(disk.data \o <<"\n">>)
    /\ wr' = wr + 1
    /\ wc' = 0
    /\ pc' = IF wr + 1 = Len(dist_mat) THEN "close" ELSE "write"
    /\ UNCHANGED <<fault, lib, rng, hist, points, dist_mat, dists, f, opens,
                   edges, x, y, scattered, segments, e, labelled, shown>>

\* a failed write swallowed (try/except around the with block): the script
\* goes on after the block
WriteFailSwallowed ==
    /\ pc = "write"
    /\ f' = "closed"
    /\ pc' = "edges"
    /\ UNCHANGED <<fault, lib, rng, disk, hist, points, dist_mat, dists,
                   opens, wr, wc, edges, x, y, scattered, segments, e, labelled,
                   shown>>

\* a write of line 23 or 25 raising: the with statement closes the handle
\* and the exception ends the script
WriteFail ==
    /\ pc = "write"
    /\ f' = "closed"
    /\ pc' = "aborted"
    /\ fault' = "OSError"
    /\ UNCHANGED <<lib, rng, disk, hist, points, dist_mat, dists,
                   opens, wr, wc, edges, x, y, scattered, segments, e, labelled,
                   shown>>

\* the rest of the script indented into the with block: the handle stays
\* open while the script goes on
CloseFileLate ==
    /\ pc = "close"
    /\ pc' = "edges"
    /\ UNCHANGED <<fault, lib, rng, disk, hist, prog>>

\* leaving the with block of line 20
CloseFile ==
    /\ pc = "close"
    /\ f' = "closed"
    /\ pc' = "edges"
    /\ UNCHANGED <<fault, lib, rng, disk, hist, points, dist_mat, dists,
                   opens, wr, wc, edges, x, y, scattered, segments, e, labelled,
                   shown>>

\* ------------------------------------------------------------ lines 28..50
\* """...""".split("\n")[1:-1]
EdgeLines(text) == DropLast(DropFirst(Split(text, <<"\n">>)))

\* lines 28..49
SplitEdges ==
    /\ pc = "edges"
    /\ edges' = EdgeLines(EdgesLiteral)
    /\ pc' = "parse"
    /\ UNCHANGED <<fault, lib, rng, disk, hist, points, dist_mat, dists, f,
                   opens, wr, wc, x, y, scattered, segments, e, labelled, shown>>

\* ParseEdge reading one digit of each number: edge[1] and edge[-2]
ParseEdgeOneDigit(edge) ==
    <<IntOf(<<At(edge, 1)>>), IntOf(<<At(edge, -2)>>)>>

\* (int(edge.split(", ")[0][1:]), int(edge.split(", ")[1][:-1]))
ParseEdge(edge) ==
    LET parts == Split(edge, <<",", " ">>)
    IN  <<IntOf(DropFirst(At(parts, 0))), IntOf(DropLast(At(parts, 1)))>>

\* line 50
ParseEdges ==
    /\ pc = "parse"
    /\ edges' = [k \in 1..Len(edges) |-> ParseEdge(edges[k])]
    /\ pc' = "xy"
    /\ UNCHANGED <<fault, lib, rng, disk, hist, points, dist_mat, dists, f,
                   opens, wr, wc, x, y, scattered, segments, e, labelled, shown>>

\* ------------------------------------------------------------ lines 52..63
\* lines 52 and 53
BuildXY ==
    /\ pc = "xy"
    /\ x' = [k \in 1..Len(points) |-> At(points[k], 0)]
    /\ y' = [k \in 1..Len(points) |-> At(points[k], 1)]
    /\ pc' = "scatter"
    /\ UNCHANGED <<fault, lib, rng, disk, hist, points, dist_mat, dists, f,
                   opens, wr, wc, edges, scattered, segments, e, labelled, shown>>

\* line 55
Scatter ==
    /\ pc = "scatter"
    /\ scattered' = [k \in 1..Len(x) |-> <<x[k], y[k]>>]
    /\ e' = 0
    /\ pc' = "plot"
    /\ UNCHANGED <<fault, lib, rng, disk, hist, points, dist_mat, dists, f,
                   opens, wr, wc, edges, x, y, segments, labelled, shown>>

\* plt.plot handed the two points instead of the x pair and the y pair
SegmentOfPoints(i, j) == <<<<At(x, i), At(y, i)>>, <<At(x, j), At(y, j)>>>>

\* the arguments of plt.plot for the edge (i, j): the x pair and the y pair
Segment(i, j) == <<<<At(x, i), At(x, j)>>, <<At(y, i), At(y, j)>>>>

\* the plt.plot calls line 58 makes for edge number k
Draw(k) == <<Segment(At(edges, k)[1], At(edges, k)[2])>>

\* lines 57 and 58 for the next edge; an index outside the lists raises
\* IndexError and ends the script
PlotEdge ==
    /\ pc = "plot"
    /\ e < Len(edges)
    /\ LET i == At(edges, e)[1]
           j == At(edges, e)[2]
       IN  IF InRange(x, i) /\ InRange(x, j)
           THEN /\ segments' = segments \o Draw(e)
                /\ e' = e + 1
                /\ pc' = IF e + 1 = Len(edges) THEN "labels" ELSE "plot"
                /\ fault' = fault
           ELSE /\ pc' = "aborted"
                /\ fault' = "IndexError"
                /\ UNCHANGED <<segments, e>>
    /\ UNCHANGED <<lib, rng, disk, hist, points, dist_mat, dists, f,
                   opens, wr, wc, edges, x, y, scattered, labelled, shown>>

\* lines 60..62
Labels ==
    /\ pc = "labels"
    /\ labelled' = TRUE
    /\ pc' = "show"
    /\ UNCHANGED <<fault, lib, rng, disk, hist, points, dist_mat, dists, f,
                   opens, wr, wc, edges, x, y, scattered, segments, e, shown>>

\* line 63: returns when the viewer window is dismissed
Show ==
    /\ pc = "show"
    /\ shown' = TRUE
    /\ pc' = "done"
    /\ UNCHANGED <<fault, lib, rng, disk, hist, points, dist_mat, dists, f,
                   opens, wr, wc, edges, x, y, scattered, segments, e, labelled>>

\* matplotlib raising for want of a usable display backend, when pyplot is
\* imported (line 3) or at a pyplot call of lines 55..63
DisplayFail ==
    /\ pc \in {"import", "scatter", "plot", "labels", "show"}
    /\ pc' = "aborted"
    /\ fault' = "ImportError"
    /\ UNCHANGED <<lib, rng, disk, hist, prog>>

\* ------------------------------------------------------------ runs
\* the script is started again after a complete run: a new interpreter,
\* the file as the last run left it
Restart ==
    /\ pc = "done"
    /\ run < MaxRuns
    /\ run' = run + 1
    /\ prev' = [points |-> points, dist_mat |-> dist_mat, data |-> disk.data]
    /\ before' = disk
    /\ pc' = "import"
    /\ fault' = "none"
    /\ points' = <<>>
    /\ dist_mat' = <<>>
    /\ dists' = <<>>
    /\ f' = "none"
    /\ opens' = 0
    /\ wr' = 0
    /\ wc' = 0
    /\ edges' = <<>>
    /\ x' = <<>>
    /\ y' = <<>>
    /\ scattered' = <<>>
    /\ segments' = <<>>
    /\ e' = 0
    /\ labelled' = FALSE
    /\ shown' = FALSE
    /\ rng' \in RngStates
    /\ UNCHANGED <<lib, disk>>

Next ==
    \/ Import
    \/ Seed
    \/ GenPoint
    \/ RowStart
    \/ AppendDist
    \/ AppendRow
    \/ OpenFile
    \/ OpenFail
    \/ WriteDist
    \/ WriteNewline
    \/ WriteFail
    \/ CloseFile
    \/ SplitEdges
    \/ ParseEdges
    \/ BuildXY
    \/ Scatter
    \/ PlotEdge
    \/ Labels
    \/ Show
    \/ DisplayFail
    \/ Restart

Spec == Init /\ [][Next]_vars

\* ------------------------------------------------------------ properties
Indices == 0..(N - 1)

\* the distance-matrix builder has finished (the loop of line 12 is left)
MatrixBuilt == pc \notin {"import", "seed", "points", "row", "col"} /\ Len(dist_mat) = N

\* entry (i, j) of the matrix
Dist(i, j) == dist_mat[i + 1][j + 1]

\* d is the Euclidean distance of p and q on the grid: the one d >= 0 with
\* d^2 <= |p - q|^2 < (d + 1)^2
IsDistance(d, p, q) ==
    LET sq == (p[1] - q[1]) * (p[1] - q[1]) + (p[2] - q[2]) * (p[2] - q[2])
    IN  d >= 0 /\ d * d <= sq /\ sq < (d + 1) * (d + 1)

\* C1: once the builder has finished, the matrix has N rows of N entries and
\* entry (i, j) is the Euclidean distance between point i and point j.
C1_EntriesAreDistances ==
    MatrixBuilt =>
        /\ Len(dist_mat) = N
        /\ \A i \in Indices : Len(At(dist_mat, i)) = N
        /\ \A i, j \in Indices : IsDistance(Dist(i, j), At(points, i), At(points, j))

\* a built matrix with an entry that needed rounding and an entry above 1/2
C1_Witness ==
    /\ MatrixBuilt
    /\ \E i, j \in Indices :
         LET p == At(points, i)
             q == At(points, j)
         IN  Dist(i, j) * Dist(i, j) <
                 (p[1] - q[1]) * (p[1] - q[1]) + (p[2] - q[2]) * (p[2] - q[2])
    /\ \E i, j \in Indices : 2 * Dist(i, j) > One

\* C2: the matrix is symmetric by construction: at every moment of the
\* build, entry (i, j) equals entry (j, i) as soon as both exist, the row
\* under construction included, so no mirroring step is ever needed.
C2_SymmetricByConstruction ==
    /\ \A i, j \in 0..(Len(dist_mat) - 1) : Dist(i, j) = Dist(j, i)
    /\ pc = "col" =>
         \A j \in 0..(Len(dists) - 1) :
             j < Len(dist_mat) => At(dists, j) = Dist(j, Len(dist_mat))

\* a built matrix with a pair of distinct points at a positive distance
C2_Witness ==
    /\ MatrixBuilt
    /\ \E i, j \in Indices :
         /\ i < j
         /\ At(points, i) # At(points, j)
         /\ Dist(i, j) > 0
         /\ Dist(j, i) > 0

\* C3: the built matrix has a zero diagonal and no negative entry.
C3_ZeroDiagonalNonNegative ==
    MatrixBuilt =>
        /\ \A i \in Indices : Dist(i, i) = 0
        /\ \A i, j \in Indices : Dist(i, j) >= 0

\* a built matrix whose diagonal is zero while an off-diagonal entry is not
\* and whose points do not all lie on the line x = y
C3_Witness ==
    /\ MatrixBuilt
    /\ \E i \in Indices : At(points, i)[1] # At(points, i)[2]
    /\ \E i, j \in Indices : i # j /\ Dist(i, j) > 0 /\ Dist(i, i) = 0

\* the write has completed: the with block of line 20 was left normally
WriteDone == f = "closed" /\ fault # "OSError"

\* one row as text: every value followed by one space, then a newline
RECURSIVE RowText(_)
RowText(row) ==
    IF Len(row) = 0 THEN <<"\n">>
    ELSE FormatFloat(row[1]) \o <<" ">> \o RowText(DropFirst(row))

\* the rows as text, in order
RECURSIVE Serialized(_)
Serialized(m) ==
    IF Len(m) = 0 THEN <<>>
    ELSE RowText(m[1]) \o Serialized(DropFirst(m))

\* the lines of a text, each without its newline
FileLines(text) ==
    LET pieces == Split(text, <<"\n">>)
    IN  IF pieces[Len(pieces)] = <<>> THEN DropLast(pieces) ELSE pieces

NonEmpty(t) == t # <<>>

\* line.split(): the whitespace-separated words of a line
Words(line) == SelectSeq(Split(line, <<" ">>), NonEmpty)

\* float(word) for a word "ddd.ddd", on the grid
ParseFloat(word) ==
    LET parts == Split(word, <<".">>)
        frac == parts[2]
    IN  IntOf(parts[1]) * One + IntOf(frac) * Pow10(FracDigits - Len(frac))

\* the lines read back: a table of numbers, one row per line
ReadBack(lines) ==
    [r \in 1..Len(lines) |->
        LET words == Words(lines[r])
        IN  [c \in 1..Len(words) |-> ParseFloat(words[c])]]

\* the table has N rows of N entries and they are those of dist_mat
IsTheMatrix(table) ==
    /\ Len(table) = N
    /\ \A r \in 1..N : Len(table[r]) = N
    /\ table = dist_mat

\* C4: once the write has completed, the file holds N lines, line r the N
\* values of row r in order, each followed by one space, the line ended by
\* a newline; read back as whitespace-separated numbers per line it gives
\* an N x N table equal to dist_mat.
C4_RoundTrip ==
    WriteDone =>
        /\ disk.exists
        /\ disk.data = Serialized(dist_mat)
        /\ IsTheMatrix(ReadBack(FileLines(disk.data)))

\* a completed write of a matrix holding a value with two fractional
\* digits, a value with a stripped trailing zero and a value of 1 or more
C4_Witness ==
    /\ WriteDone
    /\ \E i, j \in Indices : Dist(i, j) % 10 # 0
    /\ \E i, j \in Indices : Dist(i, j) % 10 = 0 /\ Dist(i, j) > 0
    /\ \E i, j \in Indices : Dist(i, j) >= One

\* the edge list has been parsed (line 50 has run)
EdgesParsed == edges # <<>> /\ pc # "parse"

Firsts == {edges[k][1] : k \in 1..Len(edges)}
Seconds == {edges[k][2] : k \in 1..Len(edges)}

\* the point the tour goes to from point p
Successor(p) == edges[CHOOSE k \in 1..Len(edges) : edges[k][1] = p][2]

\* the points visited by the first n steps of the tour from p, p included
RECURSIVE Visited(_, _)
Visited(p, n) == IF n = 0 THEN {} ELSE {p} \cup Visited(Successor(p), n - 1)

\* C5: the parsed edge list is a Hamiltonian cycle over the N points: N
\* edges, every index in 0..N-1, every point once a first and once a second
\* component, each edge starting where the one before ends (the first where
\* the last ends), and the tour from any point visits all N points.
C5_HamiltonianCycle ==
    EdgesParsed =>
        /\ Len(edges) = N
        /\ \A k \in 1..Len(edges) : edges[k][1] \in Indices /\ edges[k][2] \in Indices
        /\ Firsts = Indices
        /\ Seconds = Indices
        /\ \A k \in 1..Len(edges) : edges[k][2] = edges[(k % Len(edges)) + 1][1]
        /\ \A p \in Indices : Visited(p, N) = Indices

\* the whole script has run with the literal's first and last edge parsed
C5_Witness ==
    /\ pc = "done"
    /\ edges[1] = <<11, 3>>
    /\ edges[Len(edges)] = <<2, 11>>

\* the segment from point i to point j, as plt.plot takes it
SegmentBetween(i, j) ==
    <<<<points[i + 1][1], points[j + 1][1]>>, <<points[i + 1][2], points[j + 1][2]>>>>

\* C6: the visualizer draws one segment per edge, in list order and nothing
\* else: after k iterations there are k plot calls, the one for edge (i, j)
\* from point i to point j; after the loop there are as many as edges; no
\* draw raises IndexError.
C6_OneSegmentPerEdge ==
    /\ fault # "IndexError"
    /\ EdgesParsed =>
        /\ Len(segments) = e
        /\ e <= Len(edges)
        /\ \A k \in 1..Len(segments) :
               segments[k] = SegmentBetween(edges[k][1], edges[k][2])
        /\ pc \in {"labels", "show", "done"} => Len(segments) = Len(edges)
    /\ ~EdgesParsed => segments = <<>>

\* all segments drawn, one of them between two points that differ in x and in y
C6_Witness ==
    /\ pc = "done"
    /\ Len(segments) = N
    /\ \E k \in 1..Len(segments) :
         /\ segments[k][1][1] # segments[k][1][2]
         /\ segments[k][2][1] # segments[k][2][2]
         /\ segments[k][1][1] # segments[k][2][1]

\* the whole pipeline has run: the file written and closed, the points
\* scattered, every edge drawn, the plot labelled and shown
Complete ==
    /\ disk = File(Serialized(dist_mat))
    /\ f = "closed"
    /\ scattered # <<>>
    /\ Len(segments) = Len(edges)
    /\ labelled
    /\ shown

\* nothing of lines 28..63 has run
NothingAfterWrite ==
    /\ edges = <<>>
    /\ x = <<>>
    /\ y = <<>>
    /\ scattered = <<>>
    /\ segments = <<>>
    /\ ~labelled
    /\ ~shown

\* C7: no partial success: the script ends either with the whole pipeline
\* done or aborted at the fault; a fault ends it at once (nothing of a later
\* statement has happened: a failed open leaves the file untouched, a failed
\* write leaves every later statement unexecuted, the plot is never shown
\* after a fault) and an aborted script takes no further step.
C7_NoPartialSuccess ==
    /\ [](/\ (fault # "none") <=> (pc = "aborted")
          /\ pc = "done" => Complete
          /\ shown => pc = "done"
          /\ fault = "OSError" => NothingAfterWrite
          /\ (fault = "OSError" /\ f = "none") => (disk = before /\ opens = 0)
          /\ (fault = "ImportError" /\ points = <<>>) =>
                 (disk = before /\ f = "none" /\ NothingAfterWrite))
    /\ [][pc = "aborted" => UNCHANGED vars]_vars
    /\ [][(fault = "none" /\ fault' # "none") =>
            /\ pc' = "aborted"
            /\ UNCHANGED <<disk, points, dist_mat, edges, x, y, scattered,
                           segments, labelled, shown>>]_vars

\* a write has failed in the middle of the second row
C7_Witness ==
    /\ pc = "aborted"
    /\ fault = "OSError"
    /\ f = "closed"
    /\ wr = 1
    /\ wc = 3

\* the generator's state after n draws from the seed
RECURSIVE Drawn(_)
Drawn(n) == IF n = 0 THEN SeedState(SeedValue) ELSE Advance(Drawn(n - 1))

\* C8: the points are a function of the seed: point k (0-based) is made of
\* draws 2k+1 and 2k+2 of the seeded generator, as x and y, each in [0, 1);
\* so a second run repeats the first run's points, matrix and file content.
C8_Determinism ==
    /\ \A k \in 0..(Len(points) - 1) :
         /\ At(points, k) = <<Output(Drawn(2 * k + 1)), Output(Drawn(2 * k + 2))>>
         /\ At(points, k)[1] \in 0..(One - 1)
         /\ At(points, k)[2] \in 0..(One - 1)
    /\ run > 1 =>
         /\ \A k \in 1..Len(points) : points[k] = prev.points[k]
         /\ \A r \in 1..Len(dist_mat) : dist_mat[r] = prev.dist_mat[r]
         /\ WriteDone => disk.data = prev.data

\* a second run has finished with the first run's points, matrix and file,
\* the points not all the same
C8_Witness ==
    /\ run = 2
    /\ pc = "done"
    /\ points = prev.points
    /\ dist_mat = prev.dist_mat
    /\ disk.data = prev.data
    /\ \E k \in 1..Len(points) : points[k] # points[1]

\* C9: the writer overwrites: the file is opened at most once per run (once,
\* when the run gets that far), it is empty right after the open whatever it
\* held, and after a completed write it holds the serialization of the
\* matrix and nothing else.
C9_Overwrite ==
    /\ opens <= 1
    /\ (f # "none" \/ pc = "done") => opens = 1
    /\ (pc = "write" /\ wr = 0 /\ wc = 0) => disk = File(<<>>)
    /\ WriteDone =>
         /\ disk.exists
         /\ Len(disk.data) = Len(Serialized(dist_mat))
         /\ disk.data = Serialized(dist_mat)

\* a completed write over an earlier content longer than the new one
C9_Witness ==
    /\ WriteDone
    /\ before.exists
    /\ Len(before.data) > Len(disk.data)
    /\ Len(disk.data) > 0

\* the stage a statement belongs to
Stage(p) ==
    CASE p \in {"import", "seed", "points"} -> 1
      [] p \in {"row", "col"} -> 2
      [] p \in {"open", "write", "close"} -> 3
      [] p \in {"edges", "parse", "xy", "scatter", "plot", "labels", "show"} -> 4
      [] p = "done" -> 5
      [] p = "aborted" -> 6

\* a plotting call has been made
Plotted == scattered # <<>> \/ segments # <<>> \/ labelled \/ shown

\* C10: the stages run in order, each once: all points exist before the
\* first matrix entry, all rows before the file is opened, the file is
\* written and closed before any plotting call, show is the last step; the
\* stage never goes back within a run, and the points and the matrix are
\* never changed once built.
C10_StagesInOrder ==
    /\ []((dists # <<>> \/ dist_mat # <<>> \/ Stage(pc) \in 2..5) => Len(points) = N)
    /\ []((f # "none" \/ Stage(pc) \in 3..5) => Len(dist_mat) = N)
    /\ []((Plotted \/ Stage(pc) \in 4..5) => (f = "closed" /\ wr = N))
    /\ [](Plotted => disk.data = Serialized(dist_mat))
    /\ [](shown => (pc = "done" /\ labelled /\ Len(segments) = Len(edges)))
    /\ [](opens <= 1)
    /\ [][run' = run =>
            /\ Stage(pc') >= Stage(pc)
            /\ Len(points) = N => points' = points
            /\ Len(dist_mat) = N => dist_mat' = dist_mat
            /\ Len(points') >= Len(points)
            /\ Len(dist_mat') >= Len(dist_mat)]_vars

\* a second run has gone through every stage
C10_Witness ==
    /\ run = 2
    /\ pc = "done"
    /\ shown
    /\ opens = 1
    /\ Len(points) = N
    /\ Len(dist_mat) = N

=============================================================================
